---- MODULE Spec2Model ----
(***************************************************************************)
(* A model of src/astroGraphics/ephemeris.c (StarCharter): the function    *)
(* ephemerides_fetch, which reads the track of each solar system object    *)
(* from the ephemeris generator, labels the points with calendar dates,    *)
(* maps the tracks onto a coarse RA / Dec occupancy grid, finds the window *)
(* that bounds them and sets the viewport of the chart.                    *)
(*                                                                         *)
(* Units.  The occupancy grid of the source has 24*8 RA bins and 18*8 Dec  *)
(* bins; the model keeps the arithmetic of the source for any number of    *)
(* bins and is checked on a small grid.  An RA is a whole number of        *)
(* half-bins east of RA 0 (the circle is 2*ra_bins half-bins, so pi is     *)
(* ra_bins half-bins); a Dec is a whole number of half-bins north of the   *)
(* south pole (+pi/2 is 2*dec_bins).  A Julian day is a whole number of    *)
(* half-days (jd_step) after the model's epoch.  Hours and degrees are     *)
(* exact rationals <<numerator, denominator>>.                             *)
(***************************************************************************)
EXTENDS Integers, Sequences, FiniteSets, TLC

\* The size of the grid on which the model is checked (24 * 8 and 18 * 8 in the source).
ra_bins == 6
dec_bins == 4
\* The largest number of tracks of a chart built from the short generator outputs.
MaxTracks == 2
\* The number of lines of the long generator outputs (a track of several months).
MaxLongLines == 140
\* The cap on the iterations of the two range-normalisation loops.
MaxNormIter == 3
\* The lines the generator may print beyond the size of a track's array.
MaxOverflow == 2
\* The number of points of the tracks that are plotted.
PlotLines == 3
\* The canvas on which tracks are plotted: positions 0..MaxX by 0..MaxY.
MaxX == 2
MaxY == 1

(***************************************************************************)
(* Exact rational arithmetic, for the doubles of the source.               *)
(***************************************************************************)
Abs(x) == IF x < 0 THEN -x ELSE x

RECURSIVE GCD(_, _)
GCD(a, b) == IF b = 0 THEN a ELSE GCD(b, a % b)

Rat(n, d) ==
    LET g == GCD(Abs(n), Abs(d))
        sg == IF d < 0 THEN -1 ELSE 1
    IN  <<(sg * n) \div g, (sg * d) \div g>>

R(n) == <<n, 1>>
RAdd(a, b) == Rat(a[1] * b[2] + b[1] * a[2], a[2] * b[2])
RSub(a, b) == Rat(a[1] * b[2] - b[1] * a[2], a[2] * b[2])
RMul(a, b) == Rat(a[1] * b[1], a[2] * b[2])
RDiv(a, b) == Rat(a[1] * b[2], a[2] * b[1])
RLt(a, b) == a[1] * b[2] < b[1] * a[2]
RLe(a, b) == a[1] * b[2] <= b[1] * a[2]
RMax(a, b) == IF RLt(b, a) THEN a ELSE b
RMin(a, b) == IF RLt(a, b) THEN a ELSE b
RAbs(a) == <<Abs(a[1]), a[2]>>
\* ceil() of a rational, as an integer
RCeil(a) == -((-a[1]) \div a[2])

(***************************************************************************)
(* Text: a C string is the sequence of its characters.                     *)
(***************************************************************************)
\* The text_label of a point that carries no label.
NULL == <<"NULL">>

Whitespace == {" ", "\t"}

DigitChar(n) == <<"0", "1", "2", "3", "4", "5", "6", "7", "8", "9">>[n + 1]

\* printf's %d (and %.0f of a whole number) of a natural number
RECURSIVE Decimal(_)
Decimal(n) == IF n < 10 THEN <<DigitChar(n)>>
              ELSE Append(Decimal(n \div 10), DigitChar(n % 10))

\* The first (at most) three characters of a string: printf's %.3s, and the
\* part of a string that strncmp(.., .., 3) compares.
Prefix3(str) == SubSeq(str, 1, IF Len(str) < 3 THEN Len(str) ELSE 3)

get_month_name(month) ==
    << <<"J","a","n","u","a","r","y">>, <<"F","e","b","r","u","a","r","y">>,
       <<"M","a","r","c","h">>, <<"A","p","r","i","l">>, <<"M","a","y">>,
       <<"J","u","n","e">>, <<"J","u","l","y">>, <<"A","u","g","u","s","t">>,
       <<"S","e","p","t","e","m","b","e","r">>, <<"O","c","t","o","b","e","r">>,
       <<"N","o","v","e","m","b","e","r">>, <<"D","e","c","e","m","b","e","r">> >>[month]

(***************************************************************************)
(* The calendar.  Julian day 0 of the model is 2021 November 25, 0h; the   *)
(* months that follow are enough for the tracks of the model.              *)
(***************************************************************************)
Months == << [year |-> 2021, month |-> 11, days |-> 30],
             [year |-> 2021, month |-> 12, days |-> 31],
             [year |-> 2022, month |-> 1, days |-> 31],
             [year |-> 2022, month |-> 2, days |-> 28],
             [year |-> 2022, month |-> 3, days |-> 31],
             [year |-> 2022, month |-> 4, days |-> 30],
             [year |-> 2022, month |-> 5, days |-> 31],
             [year |-> 2022, month |-> 6, days |-> 30],
             [year |-> 2022, month |-> 7, days |-> 31],
             [year |-> 2022, month |-> 8, days |-> 31],
             [year |-> 2022, month |-> 9, days |-> 30],
             [year |-> 2022, month |-> 10, days |-> 31],
             [year |-> 2022, month |-> 11, days |-> 30],
             [year |-> 2022, month |-> 12, days |-> 31] >>

RECURSIVE DateFrom(_, _)
DateFrom(m, d) ==
    IF d <= Months[m].days
    THEN [year |-> Months[m].year, month |-> Months[m].month, day |-> d]
    ELSE DateFrom(m + 1, d - Months[m].days)

\* The calendar date of a Julian day (two samples a day).
inv_julian_day(jd) == DateFrom(1, 25 + (jd \div 2))

(***************************************************************************)
(* The loop over the lines of the generator's output.                      *)
(* A line is [text, jd, ra, dec]: text is the line up to its first         *)
(* character that is not white space, the rest the three columns as        *)
(* get_float reads them.                                                   *)
(***************************************************************************)
RECURSIVE SkipWhitespace(_)
SkipWhitespace(scan) ==
    IF scan # <<>> /\ Head(scan) \in Whitespace
    THEN SkipWhitespace(Tail(scan))
    ELSE scan

\* A line is accepted unless it is blank or a comment.
Accepted(line) ==
    LET scan == SkipWhitespace(line.text)
    IN  scan # <<>> /\ Head(scan) # "#"

\* The text label created for a point, and whether it is a sub-month label.
CreateLabel(date, previous_label) ==
    IF date.day > 6
    THEN [label |-> Decimal((date.day \div 7) * 7), sub_month_label |-> 1]
    ELSE IF date.month = 1 \/ previous_label = <<>>
    THEN [label |-> Prefix3(get_month_name(date.month)) \o <<" ">> \o Decimal(date.year),
          sub_month_label |-> 0]
    ELSE [label |-> Prefix3(get_month_name(date.month)), sub_month_label |-> 0]

\* A variant that compares the whole strings: strcmp(label, previous_label) != 0
StrcmpDiffers(label, previous_label) == label # previous_label

\* strncmp(label, previous_label, 3) != 0
StrncmpDiffers(label, previous_label) == Prefix3(label) # Prefix3(previous_label)

\* A variant that does not wait for the first day of a month.
ShowLabel_NoWait(label, previous_label, day) ==
    Prefix3(label) # Prefix3(previous_label)

\* Whether the label is shown on the point.
ShowLabel(label, previous_label, day) ==
    StrncmpDiffers(label, previous_label) /\ (previous_label # <<>> \/ day = 1)

\* The point stored for an accepted line.
StorePoint(line, previous_label) ==
    LET date == inv_julian_day(line.jd)
        made == CreateLabel(date, previous_label)
    IN  IF ShowLabel(made.label, previous_label, date.day)
        THEN [ra |-> line.ra, dec |-> line.dec, text_label |-> made.label,
              day |-> date.day, month |-> date.month, year |-> date.year,
              sub_month_label |-> made.sub_month_label]
        ELSE [ra |-> line.ra, dec |-> line.dec, text_label |-> NULL,
              day |-> 0, month |-> 0, year |-> 0, sub_month_label |-> 0]

\* A variant of the test for no data that never fires.
NoData_Negative(line_counter) == line_counter < 0

\* "Throw an error if we got no data"
NoData(line_counter) == line_counter = 0

\* The estimate of the number of lines, for which the track's array is allocated.
Capacity(jd_start, jd_end) == 20 + (jd_end - jd_start)

(***************************************************************************)
(* The inputs: the track definitions of the chart and, for each, the       *)
(* output of the ephemeris generator.  Three families of outputs are       *)
(* drawn: charts of short tracks, with blank lines, comments, empty        *)
(* outputs and a point at the north pole; one track for every pair of a    *)
(* set of RA bins and a set of Dec bins, which occupies exactly those      *)
(* bins; and one long track sampled from several starting days.            *)
(***************************************************************************)
EmptyLine == [text |-> <<>>, jd |-> 0, ra |-> 0, dec |-> 0]
BlankLine == [text |-> <<" ", "\t">>, jd |-> 0, ra |-> 0, dec |-> 0]
CommentLine == [text |-> <<" ", "#">>, jd |-> 0, ra |-> 0, dec |-> 0]
DataLine(jd, ra, dec) == [text |-> <<" ", "2">>, jd |-> jd, ra |-> ra, dec |-> dec]

\* A track of the chart: its definition and what the generator prints for it.
Track(jd_start, jd_end, lines) ==
    [jd_start |-> jd_start, jd_end |-> jd_end, lines |-> lines]

ShortTracks ==
    { Track(12, 13, <<>>),
      Track(12, 13, <<EmptyLine, CommentLine, BlankLine>>),
      Track(12, 12, <<DataLine(12, 1, 0)>>),
      Track(12, 12, <<DataLine(12, 3, 2 * dec_bins)>>),
      Track(12, 13, <<CommentLine, DataLine(12, 2 * ra_bins - 1, 2 * dec_bins),
                      EmptyLine, DataLine(13, 0, 2 * dec_bins - 1)>>),
      Track(12, 13, <<DataLine(12, ra_bins, dec_bins), DataLine(13, ra_bins + 1, dec_bins)>>) }

ShortCharts == UNION { [1..n -> ShortTracks] : n \in 1..MaxTracks }

RECURSIVE SortedSeq(_)
SortedSeq(S) ==
    IF S = {} THEN <<>>
    ELSE LET m == CHOOSE x \in S : \A y \in S : x <= y
         IN  <<m>> \o SortedSeq(S \ {m})

\* A position inside a bin: the lower half of an even bin, the upper half of an odd one.
RaIn(bin) == 2 * bin + (bin % 2)
DecIn(bin) == 2 * bin + ((bin + 1) % 2)

PatternTrack(A, D) ==
    LET a == SortedSeq(A)
        d == SortedSeq(D)
        n == IF Len(a) < Len(d) THEN Len(d) ELSE Len(a)
        at(q, m) == q[IF m < Len(q) THEN m ELSE Len(q)]
    IN  Track(10, 10 + n - 1,
              [m \in 1..n |-> DataLine(10 + m - 1, RaIn(at(a, m)), DecIn(at(d, m)))])

PatternCharts ==
    { <<PatternTrack(A, D)>> : A \in (SUBSET (0..(ra_bins - 1))) \ {{}},
                               D \in (SUBSET (0..(dec_bins - 1))) \ {{}} }

LongTrack(start) ==
    Track(start, start + MaxLongLines - 1,
          <<CommentLine>> \o [m \in 1..MaxLongLines |-> DataLine(start + m - 1, 1, dec_bins)])

LongCharts == { <<LongTrack(start)>> : start \in {0, 1, 12, 13, 21} }

\* A track of a single day for which the generator prints n lines.
OverlongTrack(n) ==
    Track(12, 12, [m \in 1..n |-> DataLine(12 + m - 1, 1, dec_bins)])

OverlongCharts ==
    { <<OverlongTrack(n)>> : n \in (Capacity(12, 12) - 1)..(Capacity(12, 12) + MaxOverflow) }

Charts == ShortCharts \cup PatternCharts \cup LongCharts \cup OverlongCharts

(***************************************************************************)
(* The chart configuration on entry.                                       *)
(***************************************************************************)
Preset(autoscale) ==
    [ephemeris_autoscale |-> autoscale,
     ra0 |-> R(3), dec0 |-> R(10), angular_width |-> R(25), aspect |-> R(1),
     projection |-> "SW_PROJECTION_SPH",
     width |-> R(16), font_size |-> R(1), mag_min |-> R(6),
     maximum_star_label_count |-> 40, dso_names |-> 1, star_flamsteed_labels |-> 1]

(***************************************************************************)
(* The state of ephemerides_fetch.                                         *)
(***************************************************************************)
VARIABLES
    chart,              \* the tracks requested and the generator's output for each
    preset,             \* the chart configuration as it was on entry
    s,                  \* the chart configuration
    ephemeris_data,     \* s->ephemeris_data: the tracks read so far
    pc,                 \* the place in the function
    line_no,            \* the next line of the generator's output
    line_counter,       \* the lines accepted so far
    previous_label,     \* the last label shown on the track
    i, k, j,            \* the loop counters (i and k count from 1 in the model)
    ra_usage, dec_usage,
    ra_bin, dec_bin,    \* the bins of the last point marked
    ra_centroid, ra_centre_bin, ra_anti_centre_bin,
    ra_bin_min, ra_bin_max, dec_bin_min, dec_bin_max,
    ra_min, ra_max, dec_min, dec_max,
    norm_iter,          \* iterations of the normalisation loops so far
    angular_width_base

grid_vars == <<ra_usage, dec_usage, ra_bin, dec_bin, j, k>>
scan_vars == <<ra_centroid, ra_centre_bin, ra_anti_centre_bin,
               ra_bin_min, ra_bin_max, dec_bin_min, dec_bin_max>>
angle_vars == <<ra_min, ra_max, dec_min, dec_max, norm_iter, angular_width_base>>
read_vars == <<line_no, line_counter, previous_label>>

(***************************************************************************)
(* The state of plot_ephemeris.  It uses the chart configuration s and the *)
(* tracks s->ephemeris_data; its loop counter is i, which counts from 0    *)
(* there as in the source.                                                 *)
(***************************************************************************)
VARIABLES
    trace_num,          \* the track to draw (an index of ephemeris_data)
    xy,                 \* what plane_project gives for each point of the track
    last_x, last_y,
    initial_theta,
    theta,              \* the direction of the track at the last tick
    page,               \* page->exclusion_regions and the labels handed to the page
    ld                  \* the calls made to the line drawer

plot_vars == <<trace_num, xy, last_x, last_y, initial_theta, theta, page, ld>>
vars == <<chart, preset, s, ephemeris_data, pc, i, read_vars, grid_vars, scan_vars,
          angle_vars, plot_vars>>

\* An angle is the direction <<x, y>> of its ray, in lowest terms; 0.0 is <<1, 0>>.
ZeroTheta == <<1, 0>>

\* ld_pen_up(ld, GSL_NAN, GSL_NAN, NULL, 1)
ld_pen_up == [op |-> "pen_up"]

EmptyPage == [exclusion_regions |-> <<>>, labels |-> <<>>]

\* The variables of plot_ephemeris while it is not running.
NotPlotting ==
    /\ trace_num = 1
    /\ xy = <<>>
    /\ last_x = 0 /\ last_y = 0
    /\ initial_theta = ZeroTheta /\ theta = ZeroTheta
    /\ page = EmptyPage
    /\ ld = <<>>

ephmeride_count == Len(chart)

Init ==
    /\ chart \in Charts
    /\ \E autoscale \in {0, 1} : preset = Preset(autoscale)
    /\ s = preset
    /\ ephemeris_data = <<>>
    /\ pc = "fetch"
    /\ line_no = 1 /\ line_counter = 0 /\ previous_label = <<>>
    /\ i = 1 /\ k = 1 /\ j = 0
    /\ ra_usage = [b \in 0..(ra_bins - 1) |-> 0]
    /\ dec_usage = [b \in 0..(dec_bins - 1) |-> 0]
    /\ ra_bin = 0 /\ dec_bin = 0
    /\ ra_centroid = 0 /\ ra_centre_bin = 0 /\ ra_anti_centre_bin = 0
    /\ ra_bin_min = 0 /\ ra_bin_max = 0 /\ dec_bin_min = 0 /\ dec_bin_max = 0
    /\ ra_min = R(0) /\ ra_max = R(0) /\ dec_min = R(0) /\ dec_max = R(0)
    /\ norm_iter = 0
    /\ angular_width_base = R(0)
    /\ NotPlotting

(***************************************************************************)
(* The loop over the tracks.  StartTrack is the head of the loop's body:   *)
(* the definition is parsed, the array allocated and the generator run.    *)
(***************************************************************************)
StartTrack ==
    /\ pc = "fetch"
    /\ ephemeris_data' = Append(ephemeris_data,
           [jd_start |-> chart[i].jd_start, jd_end |-> chart[i].jd_end,
            point_count |-> Capacity(chart[i].jd_start, chart[i].jd_end),
            data |-> <<>>])
    /\ line_no' = 1
    /\ line_counter' = 0
    /\ previous_label' = <<>>
    /\ pc' = "read"
    /\ UNCHANGED <<plot_vars, chart, preset, s, i, grid_vars, scan_vars, angle_vars>>

\* data[index] is an element of the array allocated for the track.
InsideArray(index, capacity) == index < capacity

\* What a later read may find where a point was written past the end of the
\* array, if the memory has been written by something else since.
Overwritten(pt) ==
    [ra |-> 0, dec |-> 0, text_label |-> NULL,
     day |-> 0, month |-> 0, year |-> 0, sub_month_label |-> 0]

\* What data[index] holds after pt is written to it.  The code writes without
\* looking at the size of the array; past its end the point lands on memory
\* that belongs to something else.
Written(pt, index, capacity) ==
    IF InsideArray(index, capacity) THEN {pt} ELSE {pt, Overwritten(pt)}

\* One turn of the while loop: a line is read and, if accepted, stored.  A
\* write past the end of the array may also end the process.
ReadLine ==
    /\ pc = "read"
    /\ line_no <= Len(chart[i].lines)
    /\ LET line == chart[i].lines[line_no]
           pt == StorePoint(line, previous_label)
           capacity == Capacity(ephemeris_data[i].jd_start, ephemeris_data[i].jd_end)
       IN  IF Accepted(line)
           THEN \/ /\ \E stored \in Written(pt, line_counter, capacity) :
                         ephemeris_data' =
                            [ephemeris_data EXCEPT ![i].data = Append(@, stored)]
                   /\ previous_label' =
                         IF pt.text_label # NULL THEN pt.text_label ELSE previous_label
                   /\ line_counter' = line_counter + 1
                   /\ line_no' = line_no + 1
                   /\ pc' = pc
                \/ /\ ~InsideArray(line_counter, capacity)
                   /\ pc' = "crashed"
                   /\ UNCHANGED <<ephemeris_data, previous_label, line_counter, line_no>>
           ELSE /\ line_no' = line_no + 1
                /\ UNCHANGED <<ephemeris_data, previous_label, line_counter, pc>>
    /\ UNCHANGED <<plot_vars, chart, preset, s, i, grid_vars, scan_vars, angle_vars>>

\* The end of the output: the track is counted, or the run ends.
EndTrack ==
    /\ pc = "read"
    /\ line_no > Len(chart[i].lines)
    /\ IF NoData(line_counter)
       THEN \* stch_fatal(...); exit(1)
            /\ pc' = "fatal"
            /\ UNCHANGED <<ephemeris_data, i>>
       ELSE /\ ephemeris_data' = [ephemeris_data EXCEPT ![i].point_count = line_counter]
            /\ i' = IF i < ephmeride_count THEN i + 1 ELSE 1
            /\ pc' = IF i < ephmeride_count THEN "fetch" ELSE "grid"
    /\ UNCHANGED <<plot_vars, chart, preset, s, line_no, line_counter, previous_label,
                   grid_vars, scan_vars, angle_vars>>

(***************************************************************************)
(* The loop over all points: the grid cell of each is marked.              *)
(***************************************************************************)
\* (int) (ra / (2 * M_PI) * ra_bins), for an RA in half-bins
RaBinOf(ra) == ra \div 2
\* (int) ((dec + (M_PI / 2)) / M_PI * dec_bins), for a Dec in half-bins
DecBinOf(dec) == dec \div 2

\* usage[bin] = 1.  A write past the end of the array lands in memory the
\* model does not hold, and leaves the array as it is.
MarkBin(usage, bin) ==
    IF bin \in DOMAIN usage THEN [usage EXCEPT ![bin] = 1] ELSE usage

MarkPoint ==
    /\ pc = "grid"
    /\ LET pt == ephemeris_data[i].data[k]
       IN  /\ ra_bin' = RaBinOf(pt.ra)
           /\ dec_bin' = DecBinOf(pt.dec)
           /\ ra_usage' = MarkBin(ra_usage, RaBinOf(pt.ra))
           /\ dec_usage' = MarkBin(dec_usage, DecBinOf(pt.dec))
    /\ j' = j + 1
    /\ IF k < ephemeris_data[i].point_count
       THEN k' = k + 1 /\ i' = i /\ pc' = "grid"
       ELSE IF i < ephmeride_count
       THEN k' = 1 /\ i' = i + 1 /\ pc' = "grid"
       ELSE k' = k /\ i' = i /\ pc' = "centroid"
    /\ UNCHANGED <<plot_vars, chart, preset, s, ephemeris_data, read_vars, scan_vars, angle_vars>>

(***************************************************************************)
(* The centroid of all points and the bin opposite to it.                  *)
(* find_mean_position is not part of this file: its result is any RA in    *)
(* [0, 2 pi), in half-bins.                                                *)
(***************************************************************************)
find_mean_position == 0..(2 * ra_bins - 1)

RECURSIVE WrapBin(_)
WrapBin(bin) ==
    IF bin < 0 THEN WrapBin(bin + ra_bins)
    ELSE IF bin >= ra_bins THEN WrapBin(bin - ra_bins)
    ELSE bin

\* ra_anti_centre = ra_centroid + M_PI, and its bin brought into the array
AntiCentreBin(centroid) == WrapBin(RaBinOf(centroid + ra_bins))

\* int ra_bin_min = ra_anti_centre_bin + 1
FirstRaBinMin(anti_centre_bin) == anti_centre_bin + 1

FindCentroid ==
    /\ pc = "centroid"
    /\ \E c \in find_mean_position :
          /\ ra_centroid' = c
          /\ ra_centre_bin' = RaBinOf(c)
          /\ ra_anti_centre_bin' = AntiCentreBin(c)
          /\ ra_bin_min' = FirstRaBinMin(AntiCentreBin(c))
    /\ pc' = "ra_min_scan"
    /\ UNCHANGED <<plot_vars, chart, preset, s, ephemeris_data, i, read_vars, grid_vars,
                   ra_bin_max, dec_bin_min, dec_bin_max, angle_vars>>

(***************************************************************************)
(* The four scans.  Each step is one evaluation of a loop's condition,     *)
(* which reads one cell of the usage array, and the body that follows it.  *)
(***************************************************************************)
\* The values a read of usage[bin] can give: past the end of the array, anything.
ReadUsage(usage, bin) ==
    IF bin \in DOMAIN usage THEN {usage[bin]} ELSE {0, 1}

\* "If we reach the centroid of the chart, something has gone wrong"
ScanGivesUp(bin, last_bin) == bin = last_bin

\* A variant of giving up that leaves autoscale as it is.
AutoscaleOff_Forgotten(cfg) == cfg

AutoscaleOff(cfg) == [cfg EXCEPT !.ephemeris_autoscale = 0]

NextRaBinMin(bin) == (bin + 1) % ra_bins
NextRaBinMax(bin) == (bin + ra_bins - 1) % ra_bins

RaMinScan ==
    /\ pc = "ra_min_scan"
    /\ \E v \in ReadUsage(ra_usage, ra_bin_min) :
          IF v # 0
          THEN /\ pc' = "ra_max_scan" /\ ra_bin_max' = ra_anti_centre_bin
               /\ UNCHANGED <<s, ra_bin_min>>
          ELSE IF ScanGivesUp(ra_bin_min, ra_centre_bin)
          THEN /\ s' = AutoscaleOff(s)
               /\ pc' = "ra_max_scan" /\ ra_bin_max' = ra_anti_centre_bin
               /\ UNCHANGED ra_bin_min
          ELSE /\ ra_bin_min' = NextRaBinMin(ra_bin_min)
               /\ UNCHANGED <<s, pc, ra_bin_max>>
    /\ UNCHANGED <<plot_vars, chart, preset, ephemeris_data, i, read_vars, grid_vars, ra_centroid,
                   ra_centre_bin, ra_anti_centre_bin, dec_bin_min, dec_bin_max, angle_vars>>

RaMaxScan ==
    /\ pc = "ra_max_scan"
    /\ \E v \in ReadUsage(ra_usage, ra_bin_max) :
          IF v # 0
          THEN /\ pc' = "dec_min_scan" /\ dec_bin_min' = 0
               /\ UNCHANGED <<s, ra_bin_max>>
          ELSE IF ScanGivesUp(ra_bin_max, ra_centre_bin)
          THEN /\ s' = AutoscaleOff(s)
               /\ pc' = "dec_min_scan" /\ dec_bin_min' = 0
               /\ UNCHANGED ra_bin_max
          ELSE /\ ra_bin_max' = NextRaBinMax(ra_bin_max)
               /\ UNCHANGED <<s, pc, dec_bin_min>>
    /\ UNCHANGED <<plot_vars, chart, preset, ephemeris_data, i, read_vars, grid_vars, ra_centroid,
                   ra_centre_bin, ra_anti_centre_bin, ra_bin_min, dec_bin_max, angle_vars>>

DecMinScan ==
    /\ pc = "dec_min_scan"
    /\ \E v \in ReadUsage(dec_usage, dec_bin_min) :
          IF v # 0
          THEN /\ pc' = "dec_max_scan" /\ dec_bin_max' = dec_bins - 1
               /\ UNCHANGED <<s, dec_bin_min>>
          ELSE IF ScanGivesUp(dec_bin_min, dec_bins - 1)
          THEN /\ s' = AutoscaleOff(s)
               /\ pc' = "dec_max_scan" /\ dec_bin_max' = dec_bins - 1
               /\ UNCHANGED dec_bin_min
          ELSE /\ dec_bin_min' = dec_bin_min + 1
               /\ UNCHANGED <<s, pc, dec_bin_max>>
    /\ UNCHANGED <<plot_vars, chart, preset, ephemeris_data, i, read_vars, grid_vars, ra_centroid,
                   ra_centre_bin, ra_anti_centre_bin, ra_bin_min, ra_bin_max, angle_vars>>

DecMaxScan ==
    /\ pc = "dec_max_scan"
    /\ \E v \in ReadUsage(dec_usage, dec_bin_max) :
          IF v # 0
          THEN /\ pc' = "angles"
               /\ UNCHANGED <<s, dec_bin_max>>
          ELSE IF ScanGivesUp(dec_bin_max, 0)
          THEN /\ s' = AutoscaleOff(s)
               /\ pc' = "angles"
               /\ UNCHANGED dec_bin_max
          ELSE /\ dec_bin_max' = dec_bin_max - 1
               /\ UNCHANGED <<s, pc>>
    /\ UNCHANGED <<plot_vars, chart, preset, ephemeris_data, i, read_vars, grid_vars, ra_centroid,
                   ra_centre_bin, ra_anti_centre_bin, ra_bin_min, ra_bin_max,
                   dec_bin_min, angle_vars>>

(***************************************************************************)
(* From bins back to angles, and the range of RA brought into order.       *)
(***************************************************************************)
\* bin * 24. / ra_bins, in hours
RaOfBin(bin) == Rat(bin * 24, ra_bins)
\* bin * 180. / dec_bins - 90, in degrees
DecOfBin(bin) == RSub(Rat(bin * 180, dec_bins), R(90))

BinsToAngles ==
    /\ pc = "angles"
    /\ ra_min' = RaOfBin(ra_bin_min)
    /\ ra_max' = RaOfBin(ra_bin_max + 1)
    /\ dec_min' = DecOfBin(dec_bin_min)
    /\ dec_max' = DecOfBin(dec_bin_max + 1)
    /\ pc' = "norm_up"
    /\ UNCHANGED <<plot_vars, chart, preset, s, ephemeris_data, i, read_vars, grid_vars, scan_vars,
                   norm_iter, angular_width_base>>

\* A variant of the first loop's condition: while (ra_max < ra_min)
BelowRange_Strict(lo, hi) == RLt(hi, lo)

\* while (ra_max <= ra_min)
BelowRange(lo, hi) == RLe(hi, lo)
\* while (ra_max > ra_min + 24)
AboveRange(lo, hi) == RLt(RAdd(lo, R(24)), hi)

\* One evaluation of the condition of the first loop, and its body.
NormaliseUp ==
    /\ pc = "norm_up"
    /\ IF BelowRange(ra_min, ra_max)
       THEN /\ norm_iter < MaxNormIter
            /\ ra_max' = RAdd(ra_max, R(24))
            /\ norm_iter' = norm_iter + 1
            /\ pc' = pc
       ELSE /\ pc' = "norm_down"
            /\ UNCHANGED <<ra_max, norm_iter>>
    /\ UNCHANGED <<plot_vars, chart, preset, s, ephemeris_data, i, read_vars, grid_vars, scan_vars,
                   ra_min, dec_min, dec_max, angular_width_base>>

\* One evaluation of the condition of the second loop, and its body.
NormaliseDown ==
    /\ pc = "norm_down"
    /\ IF AboveRange(ra_min, ra_max)
       THEN /\ norm_iter < MaxNormIter
            /\ ra_max' = RSub(ra_max, R(24))
            /\ norm_iter' = norm_iter + 1
            /\ pc' = pc
       ELSE /\ pc' = "viewport"
            /\ UNCHANGED <<ra_max, norm_iter>>
    /\ UNCHANGED <<plot_vars, chart, preset, s, ephemeris_data, i, read_vars, grid_vars, scan_vars,
                   ra_min, dec_min, dec_max, angular_width_base>>

(***************************************************************************)
(* The viewport.                                                           *)
(***************************************************************************)
\* MAX((ra_max - ra_min) * 180 / 12, dec_max - dec_min) * 1.1, and 360 above 350
AngularWidthBase(ra_lo, ra_hi, dec_lo, dec_hi) ==
    LET w == RMul(RMax(RMul(RSub(ra_hi, ra_lo), R(15)), RSub(dec_hi, dec_lo)), Rat(11, 10))
    IN  IF RLt(R(350), w) THEN R(360) ELSE w

\* The RA of the centre brought into [0, 24)
RECURSIVE WrapHours(_)
WrapHours(h) ==
    IF RLt(h, R(0)) THEN WrapHours(RAdd(h, R(24)))
    ELSE IF RLe(R(24), h) THEN WrapHours(RSub(h, R(24)))
    ELSE h

\* fabs(dec_max - dec_min) / (fabs(ra_max - ra_min) * 180 / 12)
SpanRatio(ra_lo, ra_hi, dec_lo, dec_hi) ==
    RDiv(RAbs(RSub(dec_hi, dec_lo)), RMul(RAbs(RSub(ra_hi, ra_lo)), R(15)))

\* "Make sure that plot does not go outside the declination range -90 to 90"
ClampDec0(dec0, ang_height) ==
    RMin(RMax(dec0, RAdd(R(-89), RDiv(ang_height, R(2)))),
         RSub(R(89), RDiv(ang_height, R(2))))

\* The rectangular projection, for charts wider than 110 degrees.
FlatViewport(cfg, ratio, width_base) ==
    LET tall == RLt(Rat(1, 2), ratio)
        aspect == IF tall THEN R(1) ELSE RMin(Rat(1, 2), RMul(ratio, Rat(9, 5)))
        width == RMul(cfg.width, Rat(8, 5))
    IN  [cfg EXCEPT !.projection = "SW_PROJECTION_FLAT",
                    !.angular_width = width_base,
                    !.width = IF tall THEN RMul(width, Rat(7, 10)) ELSE width,
                    !.font_size = RMul(cfg.font_size, Rat(19, 20)),
                    !.mag_min = RMin(cfg.mag_min, R(5)),
                    !.maximum_star_label_count = 25,
                    !.dso_names = 0,
                    !.aspect = aspect,
                    !.dec0 = ClampDec0(cfg.dec0, RMul(width_base, aspect))]

\* The gnomonic projection, for the other charts.
GnomViewport(cfg, ratio, ra_lo, ra_hi, dec_lo, dec_hi) ==
    LET a == Rat(RCeil(RMul(ratio, R(10))), 10)
        aspect == IF RLt(a, Rat(1, 2)) THEN Rat(1, 2)
                  ELSE IF RLt(Rat(3, 2), a) THEN Rat(3, 2) ELSE a
        w == RMul(RMax(RMul(RSub(ra_hi, ra_lo), R(15)),
                       RDiv(RSub(dec_hi, dec_lo), aspect)), Rat(11, 10))
    IN  [cfg EXCEPT !.projection = "SW_PROJECTION_GNOM",
                    !.aspect = aspect,
                    !.angular_width = IF RLt(R(350), w) THEN R(360) ELSE w]

\* A variant with the test of the width inverted: wide charts gnomonic.
Autoscale_WideIsGnom(cfg, ra_lo, ra_hi, dec_lo, dec_hi, width_base) ==
    LET centred == [cfg EXCEPT
                      !.ra0 = WrapHours(RDiv(RAdd(ra_lo, ra_hi), R(2))),
                      !.dec0 = RDiv(RAdd(dec_lo, dec_hi), R(2)),
                      !.star_flamsteed_labels =
                          IF RLt(R(22), width_base) THEN 0 ELSE cfg.star_flamsteed_labels]
        ratio == SpanRatio(ra_lo, ra_hi, dec_lo, dec_hi)
    IN  IF RLt(width_base, R(110))
        THEN FlatViewport(centred, ratio, width_base)
        ELSE GnomViewport(centred, ratio, ra_lo, ra_hi, dec_lo, dec_hi)

\* The body of "if (s->ephemeris_autoscale)"
Autoscale(cfg, ra_lo, ra_hi, dec_lo, dec_hi, width_base) ==
    LET centred == [cfg EXCEPT
                      !.ra0 = WrapHours(RDiv(RAdd(ra_lo, ra_hi), R(2))),
                      !.dec0 = RDiv(RAdd(dec_lo, dec_hi), R(2)),
                      !.star_flamsteed_labels =
                          IF RLt(R(22), width_base) THEN 0 ELSE cfg.star_flamsteed_labels]
        ratio == SpanRatio(ra_lo, ra_hi, dec_lo, dec_hi)
    IN  IF RLt(R(110), width_base)
        THEN FlatViewport(centred, ratio, width_base)
        ELSE GnomViewport(centred, ratio, ra_lo, ra_hi, dec_lo, dec_hi)

\* if (s->ephemeris_autoscale) ...
AutoscaleEnabled(cfg) == cfg.ephemeris_autoscale # 0

SetViewport ==
    /\ pc = "viewport"
    /\ angular_width_base' = AngularWidthBase(ra_min, ra_max, dec_min, dec_max)
    /\ s' = IF AutoscaleEnabled(s)
            THEN Autoscale(s, ra_min, ra_max, dec_min, dec_max,
                           AngularWidthBase(ra_min, ra_max, dec_min, dec_max))
            ELSE s
    /\ pc' = "done"
    /\ UNCHANGED <<plot_vars, chart, preset, ephemeris_data, i, read_vars, grid_vars, scan_vars,
                   ra_min, ra_max, dec_min, dec_max, norm_iter>>

Next ==
    \/ StartTrack
    \/ ReadLine
    \/ EndTrack
    \/ MarkPoint
    \/ FindCentroid
    \/ RaMinScan
    \/ RaMaxScan
    \/ DecMinScan
    \/ DecMaxScan
    \/ BinsToAngles
    \/ NormaliseUp
    \/ NormaliseDown
    \/ SetViewport

Spec == Init /\ [][Next]_vars

(***************************************************************************)
(* plot_ephemeris: the track trace_num is drawn on the page.               *)
(*                                                                         *)
(* The inputs are a track as ephemerides_fetch stores it and the position  *)
(* on the canvas that plane_project gives for each of its points.  The     *)
(* positions are whole numbers of the canvas' unit; the canvas is the      *)
(* rectangle [x_min, x_max] x [y_min, y_max].                              *)
(***************************************************************************)
\* The points of a track, as the loop over the generator's lines stores them.
RECURSIVE FetchedData(_, _)
FetchedData(lines, shown) ==
    IF lines = <<>> THEN <<>>
    ELSE LET line == Head(lines)
             pt == StorePoint(line, shown)
         IN  IF Accepted(line)
             THEN <<pt>> \o FetchedData(Tail(lines),
                                IF pt.text_label # NULL THEN pt.text_label
                                ELSE shown)
             ELSE FetchedData(Tail(lines), shown)

Fetched(track) ==
    LET data == FetchedData(track.lines, <<>>)
    IN  [jd_start |-> track.jd_start, jd_end |-> track.jd_end,
         point_count |-> Len(data), data |-> data]

\* The days of the calendar of the model before month mo of it.
RECURSIVE DaysBefore(_)
DaysBefore(mo) == IF mo = 1 THEN 0 ELSE DaysBefore(mo - 1) + Months[mo - 1].days

\* The Julian day of the model on which month mo of the calendar starts.
FirstOfMonth(mo) == 2 * (DaysBefore(mo) - 24)

\* A track of PlotLines samples, one every half day.
HalfDayTrack(start) ==
    Track(start, start + PlotLines - 1,
          [m \in 1..PlotLines |-> DataLine(start + m - 1, m, dec_bins)])

\* A track of PlotLines samples on December 1, 7, 14, 21, ...
WeeklyTrack ==
    LET at(m) == FirstOfMonth(2) + (IF m = 1 THEN 0 ELSE 12 + 14 * (m - 2))
    IN  Track(at(1), at(PlotLines), [m \in 1..PlotLines |-> DataLine(at(m), m, dec_bins)])

\* Tracks that start on the first day of each month of a year, tracks that
\* start one and two samples before the first day of a month, and one track
\* with labels inside a month.
PlotCharts ==
    { <<HalfDayTrack(FirstOfMonth(mo))>> : mo \in 2..13 }
        \cup { <<HalfDayTrack(FirstOfMonth(2) - d)>> : d \in 1..2 }
        \cup { <<WeeklyTrack>> }

\* The fields of the chart configuration that plot_ephemeris reads.
Canvas == [x_min |-> 1, x_max |-> MaxX, y_min |-> 0, y_max |-> MaxY, wlin |-> R(16)]

\* The positions plane_project may give: on the canvas, or left of it.
Coords == (0..MaxX) \X (0..MaxY)

\* const ephemeris *e = &s->ephemeris_data[trace_num]
e == ephemeris_data[trace_num]

PlotInit ==
    /\ chart \in PlotCharts
    /\ preset = Preset(0)
    /\ s = preset
    /\ ephemeris_data = [t \in 1..Len(chart) |-> Fetched(chart[t])]
    /\ pc = "trace"
    /\ line_no = 1 /\ line_counter = 0 /\ previous_label = <<>>
    /\ i = 0 /\ k = 1 /\ j = 0
    /\ ra_usage = [b \in 0..(ra_bins - 1) |-> 0]
    /\ dec_usage = [b \in 0..(dec_bins - 1) |-> 0]
    /\ ra_bin = 0 /\ dec_bin = 0
    /\ ra_centroid = 0 /\ ra_centre_bin = 0 /\ ra_anti_centre_bin = 0
    /\ ra_bin_min = 0 /\ ra_bin_max = 0 /\ dec_bin_min = 0 /\ dec_bin_max = 0
    /\ ra_min = R(0) /\ ra_max = R(0) /\ dec_min = R(0) /\ dec_max = R(0)
    /\ norm_iter = 0
    /\ angular_width_base = R(0)
    /\ trace_num \in 1..Len(chart)
    /\ xy \in [1..Len(FetchedData(chart[trace_num].lines, <<>>)) -> Coords]
    /\ last_x = 0 /\ last_y = 0
    /\ initial_theta = ZeroTheta /\ theta = ZeroTheta
    /\ page = EmptyPage
    /\ ld = <<ld_pen_up>>

\* plane_project(&x, &y, s, e->data[i].ra, e->data[i].dec, 0)
plane_project(n) == [x |-> xy[n + 1][1], y |-> xy[n + 1][2]]

\* (x < s->x_min) || (x > s->x_max) || (y < s->y_min) || (y > s->y_max)
OffCanvas(x, y) ==
    (x < Canvas.x_min) \/ (x > Canvas.x_max) \/ (y < Canvas.y_min) \/ (y > Canvas.y_max)

\* atan2(y, x): the direction of the ray from the origin through (x, y).
atan2(y, x) ==
    IF x = 0 /\ y = 0 THEN ZeroTheta
    ELSE LET g == GCD(Abs(x), Abs(y)) IN <<x \div g, y \div g>>

\* ld_point(ld, x, y, NULL)
ld_point(x, y) == [op |-> "point", x |-> x, y |-> y]

\* One turn of the loop that traces the line of the track.
TracePoint ==
    /\ pc = "trace"
    /\ i < e.point_count
    /\ LET x == plane_project(i).x
           y == plane_project(i).y
       IN  IF OffCanvas(x, y)
           THEN UNCHANGED <<ld, initial_theta, last_x, last_y>>
           ELSE /\ ld' = Append(ld, ld_point(x, y))
                /\ initial_theta' = IF i = 2 THEN atan2(y - last_y, x - last_x)
                                    ELSE initial_theta
                /\ last_x' = x
                /\ last_y' = y
    /\ i' = i + 1
    /\ UNCHANGED <<chart, preset, s, ephemeris_data, pc, read_vars, grid_vars, scan_vars,
                   angle_vars, trace_num, xy, theta, page>>

\* "We have finished tracing ephemeris line, so lift the pen"
LiftPen ==
    /\ pc = "trace"
    /\ i >= e.point_count
    /\ ld' = Append(ld, ld_pen_up)
    /\ i' = 0
    /\ pc' = "ticks"
    /\ UNCHANGED <<chart, preset, s, ephemeris_data, read_vars, grid_vars, scan_vars,
                   angle_vars, trace_num, xy, last_x, last_y, initial_theta, theta, page>>

\* physical_tick_len * s->wlin / s->width
graph_coords_tick_len(pt) ==
    RDiv(RMul(IF pt.sub_month_label # 0 THEN Rat(12, 100) ELSE Rat(20, 100), Canvas.wlin),
         s.width)

\* The exclusion region x -+ tick_len * part, y -+ tick_len * part.
ExclusionRegion(x, y, tick_len, part) ==
    [x_min |-> RSub(R(x), RMul(tick_len, part)), x_max |-> RAdd(R(x), RMul(tick_len, part)),
     y_min |-> RSub(R(y), RMul(tick_len, part)), y_max |-> RAdd(R(y), RMul(tick_len, part))]

\* The direction of the track at point n.
TickTheta(n, x, y) ==
    IF n < 2 THEN initial_theta ELSE atan2(y - last_y, x - last_x)

\* The direction lies within 22.5 degrees of the axis a; b is the other axis:
\* |b| < tan(22.5 deg) * |a|, and tan(22.5 deg) = sqrt(2) - 1.
NearAxis(a, b) == (Abs(a) + Abs(b)) * (Abs(a) + Abs(b)) < 2 * a * a

\* h_align and v_align of the label, from theta_deg.
Align(th) ==
    LET x == th[1]
        y == th[2]
    IN  IF NearAxis(x, y) THEN (IF x > 0 THEN <<0, 1>> ELSE <<0, -1>>)
        ELSE IF NearAxis(y, x) THEN (IF y > 0 THEN <<-1, 0>> ELSE <<1, 0>>)
        ELSE IF y > 0 THEN (IF x > 0 THEN <<-1, 1>> ELSE <<-1, -1>>)
        ELSE (IF x > 0 THEN <<1, 1>> ELSE <<1, -1>>)

Flag(b) == IF b THEN 1 ELSE 0

\* The priority of the label of point n: e7 * 1e-7 + e12 * 1e-12.
Priority(n, pt) ==
    [e7 |-> 123000
              - 40 * Flag(pt.sub_month_label = 0)
              - 1 * Flag(pt.day = 14)
              - 3 * Flag(pt.month = 1)
              - 2 * Flag(pt.month = 7)
              - 1 * Flag(pt.month = 4 \/ pt.month = 11),
     e12 |-> n]

\* The two ends of the tick mark: x +- tick_len * sin(theta), y -+ tick_len * cos(theta).
TickMark(x, y, tick_len, th) ==
    << ld_pen_up,
       [op |-> "tick_end", x |-> x, y |-> y, tick_len |-> tick_len, theta |-> th, side |-> 1],
       [op |-> "tick_end", x |-> x, y |-> y, tick_len |-> tick_len, theta |-> th, side |-> -1],
       ld_pen_up >>

\* chart_label_buffer(page, s, s->ephemeris_col, e->data[i].text_label, ...): the
\* four positions offered are those at 1.5 and 1.85 tick lengths from (x, y)
\* on either side of it, along the tick.
chart_label_buffer(n, pt, x, y, th) ==
    [point |-> n, text |-> pt.text_label, x |-> x, y |-> y, theta |-> th,
     tick_len |-> graph_coords_tick_len(pt),
     h_align |-> Align(th)[1], v_align |-> Align(th)[2],
     font_size |-> IF pt.sub_month_label # 0 THEN Rat(13, 10) ELSE Rat(17, 10),
     extra_margin |-> IF pt.sub_month_label # 0 THEN 2 ELSE 0,
     priority |-> Priority(n, pt)]

\* A variant in which a point off the canvas adds no exclusion region.
PointRegion_InView(x, y, tick_len) ==
    IF OffCanvas(x, y) THEN <<>> ELSE <<ExclusionRegion(x, y, tick_len, Rat(1, 10))>>

\* A point always adds its own exclusion region.
PointRegion(x, y, tick_len) == <<ExclusionRegion(x, y, tick_len, Rat(1, 10))>>

\* One turn of the loop that draws the tick marks.
TickPoint ==
    /\ pc = "ticks"
    /\ i < e.point_count
    /\ LET pt == e.data[i + 1]
           tick_len == graph_coords_tick_len(pt)
           x == plane_project(i).x
           y == plane_project(i).y
           th == TickTheta(i, x, y)
           point_region == PointRegion(x, y, tick_len)
       IN  /\ theta' = th
           /\ last_x' = x
           /\ last_y' = y
           /\ IF pt.text_label # NULL /\ ~OffCanvas(x, y)
              THEN /\ page' =
                        [exclusion_regions |->
                            page.exclusion_regions \o point_region
                                \o <<ExclusionRegion(x, y, tick_len, Rat(4, 10))>>,
                         labels |-> Append(page.labels, chart_label_buffer(i, pt, x, y, th))]
                   /\ ld' = ld \o TickMark(x, y, tick_len, th)
              ELSE /\ page' = [page EXCEPT !.exclusion_regions = @ \o point_region]
                   /\ ld' = ld
    /\ i' = i + 1
    /\ UNCHANGED <<chart, preset, s, ephemeris_data, pc, read_vars, grid_vars, scan_vars,
                   angle_vars, trace_num, xy, initial_theta>>

\* The end of the loop over the tick marks: plot_ephemeris returns.
EndPlot ==
    /\ pc = "ticks"
    /\ i >= e.point_count
    /\ pc' = "plotted"
    /\ UNCHANGED <<chart, preset, s, ephemeris_data, i, read_vars, grid_vars, scan_vars,
                   angle_vars, plot_vars>>

PlotNext ==
    \/ TracePoint
    \/ LiftPen
    \/ TickPoint
    \/ EndPlot

PlotSpec == PlotInit /\ [][PlotNext]_vars

(***************************************************************************)
(* What the claims speak of.                                               *)
(***************************************************************************)
\* The first character of a line that is not white space ("" if there is none).
FirstNonWhite(text) ==
    LET nw == {n \in 1..Len(text) : text[n] \notin Whitespace}
    IN  IF nw = {} THEN "" ELSE text[CHOOSE n \in nw : \A q \in nw : n <= q]

\* A line that is neither blank nor a comment.
IsRecord(line) == FirstNonWhite(line.text) \notin {"", "#"}

\* The records among the lines the generator prints for track t.
Records(t) == SelectSeq(chart[t].lines, IsRecord)
NumAccepted(t) == Len(Records(t))

NothingComputed ==
    /\ j = 0
    /\ \A b \in DOMAIN ra_usage : ra_usage[b] = 0
    /\ \A b \in DOMAIN dec_usage : dec_usage[b] = 0
    /\ s = preset
    /\ angular_width_base = R(0)

\* C1: a track for which the generator prints no accepted line ends the run at
\* that track, before the grid, the centroid or the viewport is computed; and
\* when ephemerides_fetch returns, the point_count of every track is the number
\* of its accepted lines, and is greater than 0.
C1_NoDataIsFatal ==
    /\ \A t \in 1..Len(chart) :
          NumAccepted(t) = 0 => (pc \in {"fetch", "read", "fatal"} /\ i <= t)
    /\ pc = "fatal" => (NumAccepted(i) = 0 /\ NothingComputed)
    /\ pc = "done" =>
          /\ Len(ephemeris_data) = Len(chart)
          /\ \A t \in 1..Len(chart) :
                /\ ephemeris_data[t].point_count = NumAccepted(t)
                /\ ephemeris_data[t].point_count = Len(ephemeris_data[t].data)
                /\ ephemeris_data[t].point_count > 0

\* The run ends at the second track, whose output holds blank and comment lines only.
C1_Witness ==
    /\ pc = "fatal"
    /\ i = 2
    /\ Len(chart[2].lines) > 0

OccupiedRa == {b \in DOMAIN ra_usage : ra_usage[b] # 0}
OccupiedDec == {b \in DOMAIN dec_usage : dec_usage[b] # 0}

\* Bin b lies in the run of RA bins from lo forward (wrapping) to hi.
InRaRun(lo, hi, b) == ((b - lo) % ra_bins) <= ((hi - lo) % ra_bins)

\* C2: when the four scans end with autoscale enabled, every occupied RA bin
\* lies in the run from ra_bin_min forward to ra_bin_max, every occupied Dec bin
\* lies in [dec_bin_min, dec_bin_max], and the four bounding bins are occupied.
C2_WindowHoldsAllBins ==
    (pc = "angles" /\ s.ephemeris_autoscale # 0) =>
        /\ ra_bin_min \in OccupiedRa
        /\ ra_bin_max \in OccupiedRa
        /\ dec_bin_min \in OccupiedDec
        /\ dec_bin_max \in OccupiedDec
        /\ \A b \in OccupiedRa : InRaRun(ra_bin_min, ra_bin_max, b)
        /\ \A b \in OccupiedDec : dec_bin_min <= b /\ b <= dec_bin_max

\* C3: every index with which the forward and the backward scan read ra_usage
\* lies in [0, ra_bins - 1].
C3_RaIndexInArray ==
    /\ pc = "ra_min_scan" => ra_bin_min \in 0..(ra_bins - 1)
    /\ pc = "ra_max_scan" => ra_bin_max \in 0..(ra_bins - 1)

\* C4: the index written in dec_usage for a point lies in [0, dec_bins - 1].
C4_DecIndexInArray ==
    j > 0 => dec_bin \in 0..(dec_bins - 1)

WholeSky ==
    /\ OccupiedRa = 0..(ra_bins - 1)
    /\ OccupiedDec = 0..(dec_bins - 1)

\* The viewport and the style overrides: every field but the autoscale flag.
ViewportFields ==
    {"ra0", "dec0", "angular_width", "aspect", "projection", "width", "font_size",
     "mag_min", "maximum_star_label_count", "dso_names", "star_flamsteed_labels"}
ViewportIsPreset == \A f \in ViewportFields : s[f] = preset[f]

\* C5 as stated: when the points occupy every RA bin and every Dec bin,
\* autoscale is off on return and the viewport is the preset.
C5_WholeSkyKeepsPreset ==
    (pc = "done" /\ WholeSky) =>
        (s.ephemeris_autoscale = 0 /\ ViewportIsPreset)

\* C5 as amended: when the points occupy every RA bin and every Dec bin, no
\* scan fails: autoscale is on return as it was on entry, and if it was on the
\* viewport is set to a rectangular chart of the whole range of declination,
\* more than 110 degrees wide, with the style overrides of that projection.
C5_WholeSkyAutoscales ==
    (pc = "done" /\ WholeSky) =>
        /\ s.ephemeris_autoscale = preset.ephemeris_autoscale
        /\ preset.ephemeris_autoscale = 0 => ViewportIsPreset
        /\ preset.ephemeris_autoscale # 0 =>
              /\ s.projection = "SW_PROJECTION_FLAT"
              /\ RLt(R(110), s.angular_width)
              /\ s.angular_width = angular_width_base
              /\ dec_min = R(-90) /\ dec_max = R(90)
              /\ s.maximum_star_label_count = 25
              /\ s.dso_names = 0
              /\ s.star_flamsteed_labels = 0

C5_Witness ==
    /\ pc = "done"
    /\ WholeSky
    /\ preset.ephemeris_autoscale = 1
    /\ s.ephemeris_autoscale = 1
    /\ s.angular_width = R(360)

\* A scan that ended on a bin that is not occupied.
RaMinScanFailed == ra_bin_min \in DOMAIN ra_usage /\ ra_usage[ra_bin_min] = 0
RaMaxScanFailed == ra_bin_max \in DOMAIN ra_usage /\ ra_usage[ra_bin_max] = 0
DecMinScanFailed == dec_usage[dec_bin_min] = 0
DecMaxScanFailed == dec_usage[dec_bin_max] = 0

C7_PlotInsideSky ==
    (pc = "done" /\ s.projection = "SW_PROJECTION_FLAT") =>
        LET h == RMul(angular_width_base, s.aspect)
        IN  /\ RLe(RAdd(R(-89), RDiv(h, R(2))), s.dec0)
            /\ RLe(s.dec0, RSub(R(89), RDiv(h, R(2))))

\* The dates of the accepted lines of track t, from the generator's output.
Dates(t) ==
    LET recs == Records(t)
    IN  [m \in 1..Len(recs) |-> inv_julian_day(recs[m].jd)]

MonthAbbrev ==
    << <<"J","a","n">>, <<"F","e","b">>, <<"M","a","r">>, <<"A","p","r">>,
       <<"M","a","y">>, <<"J","u","n">>, <<"J","u","l">>, <<"A","u","g">>,
       <<"S","e","p">>, <<"O","c","t">>, <<"N","o","v">>, <<"D","e","c">> >>

FourDigits(y) ==
    <<DigitChar(y \div 1000), DigitChar((y \div 100) % 10),
      DigitChar((y \div 10) % 10), DigitChar(y % 10)>>

\* A major label with the year, e.g. Jan 2022
MajorWithYear(date) == MonthAbbrev[date.month] \o <<" ">> \o FourDigits(date.year)

Labelled(t) ==
    {m \in 1..Len(ephemeris_data[t].data) : ephemeris_data[t].data[m].text_label # NULL}

Least(S) == CHOOSE m \in S : \A q \in S : m <= q

\* C8: in every track, the first point that carries a label is a point of day 1
\* of a month, its label is a major one, and its text is the three letters of
\* the month and the four digits of the year.
C8_FirstLabelOnDayOne ==
    \A t \in 1..Len(ephemeris_data) :
        Labelled(t) # {} =>
            LET m == Least(Labelled(t))
                pt == ephemeris_data[t].data[m]
                date == Dates(t)[m]
            IN  /\ date.day = 1
                /\ pt.day = 1 /\ pt.month = date.month /\ pt.year = date.year
                /\ pt.sub_month_label = 0
                /\ pt.year \in 1000..9999
                /\ pt.text_label = MajorWithYear(date)

\* A track that starts late in a month: its points before day 1 carry no label
\* and the label of its first point of December 1 is shown.
C8_Witness ==
    \E t \in 1..Len(ephemeris_data) :
        /\ Labelled(t) # {}
        /\ Least(Labelled(t)) > 2
        /\ Dates(t)[1].day > 6
        /\ ephemeris_data[t].data[Least(Labelled(t))].text_label
              = <<"D","e","c"," ","2","0","2","1">>

\* Track t is sampled every half day, in order, as far as it has been read.
EveryHalfDay(t) ==
    LET recs == Records(t)
    IN  \A m \in 1..(Len(ephemeris_data[t].data) - 1) : recs[m + 1].jd = recs[m].jd + 1

MinorText(day) ==
    CASE day = 7 -> <<"7">>
      [] day = 14 -> <<"1", "4">>
      [] day = 21 -> <<"2", "1">>
      [] day = 28 -> <<"2", "8">>

\* The labels of track t, whose points are of the dates d, are those of the
\* claim from the start of the track to day 1 of the second month.
LabelsOfAMonth(t, d) ==
    LET ones == {m \in 1..Len(ephemeris_data[t].data) : d[m].day = 1}
        m1 == Least(ones)
        next == {m \in ones : d[m].month # d[m1].month}
        m2 == Least(next)
    IN  (ones # {} /\ next # {}) =>
            \A m \in 1..m2 :
                LET pt == ephemeris_data[t].data[m]
                IN  IF m = m1
                    THEN pt.text_label = MajorWithYear(d[m]) /\ pt.sub_month_label = 0
                    ELSE IF m = m2
                    THEN /\ pt.sub_month_label = 0
                         /\ pt.text_label =
                               IF d[m].month = 1 THEN MajorWithYear(d[m])
                               ELSE MonthAbbrev[d[m].month]
                    ELSE IF m > m1 /\ d[m - 1].day # d[m].day /\ d[m].day \in {7, 14, 21, 28}
                    THEN pt.text_label = MinorText(d[m].day) /\ pt.sub_month_label = 1
                    ELSE pt.text_label = NULL

\* C9: on a track sampled every half day that starts before day 1 of a month
\* and runs into the next month, the labels are: a major label with the year on
\* the first sample of day 1, one minor label on the first sample of each of the
\* days 7, 14, 21 and 28, and one major label on the first sample of day 1 of
\* the next month, with the year only in January; no other sample, from the
\* start of the track to that one, carries a label.
C9_LabelsOfAMonth ==
    \A t \in 1..Len(ephemeris_data) :
        (/\ Len(ephemeris_data[t].data) > 0
         /\ EveryHalfDay(t)
         /\ Dates(t)[1].day # 1) => LabelsOfAMonth(t, Dates(t))

\* A track from November to February has been read: the label of January 1
\* carries the year, that of February 1 does not, and day 28 has its label.
C9_Witness ==
    \E t \in 1..Len(ephemeris_data) :
        /\ Len(ephemeris_data[t].data) > 0
        /\ EveryHalfDay(t)
        /\ Dates(t)[1].day # 1
        /\ \E m \in Labelled(t) : ephemeris_data[t].data[m].text_label = <<"F","e","b">>
        /\ \E m \in Labelled(t) :
              ephemeris_data[t].data[m].text_label = <<"J","a","n"," ","2","0","2","2">>
        /\ \E m \in Labelled(t) : ephemeris_data[t].data[m].text_label = <<"2","8">>

\* C10: after the two loops, ra_min < ra_max and ra_max - ra_min <= 24 hours;
\* and both loops end: neither is stopped by the cap on its iterations.
C10_RaRangeInOrder ==
    /\ pc \in {"viewport", "done"} =>
          /\ RLt(ra_min, ra_max)
          /\ RLe(RSub(ra_max, ra_min), R(24))
    /\ (pc = "norm_up" /\ BelowRange(ra_min, ra_max)) => norm_iter < MaxNormIter
    /\ (pc = "norm_down" /\ AboveRange(ra_min, ra_max)) => norm_iter < MaxNormIter

\* The circle is fully occupied: ra_bin_max is the bin before ra_bin_min, and
\* the first loop has turned once.
C10_Witness ==
    /\ pc = "viewport"
    /\ ra_bin_min \in 1..(ra_bins - 1)
    /\ ra_bin_max = ra_bin_min - 1
    /\ OccupiedRa = 0..(ra_bins - 1)
    /\ norm_iter = 1
    /\ RSub(ra_max, ra_min) = R(24)

\* The size of the array allocated for track t.
Allocated(t) == Capacity(ephemeris_data[t].jd_start, ephemeris_data[t].jd_end)

\* C14: for every track and every output of the generator, each accepted line
\* is stored at an index below the size of the array allocated for the track,
\* (int)(20 + (jd_end - jd_start) / 0.5): no point is written past the end of
\* the array, and the process is not ended by such a write.
C14_StoreInsideArray ==
    /\ pc # "crashed"
    /\ \A t \in 1..Len(ephemeris_data) :
          \A m \in 1..Len(ephemeris_data[t].data) : InsideArray(m - 1, Allocated(t))

(***************************************************************************)
(* plot_ephemeris.                                                         *)
(***************************************************************************)
\* Priority a is strictly lower (better) than priority b.
PriorityLower(a, b) == (a.e7 - b.e7) * 100000 + (a.e12 - b.e12) < 0

\* The points of the tracks of the model that carry a major label at index n,
\* on the given day of the month.
MajorsAt(n, day) ==
    { pt \in { Fetched(c[1]).data[n + 1] :
                  c \in { d \in PlotCharts : Len(Fetched(d[1]).data) > n } } :
         pt.text_label # NULL /\ pt.sub_month_label = 0 /\ pt.day = day }

Quarters == {1, 4, 7, 10}

\* C11: of two major labels at the same index of their tracks and on the same
\* day of the month, one of January or July has a strictly lower priority than
\* one of April or October; those of April and October have equal priorities;
\* and one of April or October has a strictly lower priority than one of a
\* month that is none of January, April, July and October.
C11_MonthBonuses ==
    \A n \in 1..Len(page.labels) :
        LET label == page.labels[n]
            pt == e.data[label.point + 1]
        IN  pt.sub_month_label = 0 =>
                \A other \in MajorsAt(label.point, pt.day) :
                    LET priority == Priority(label.point, other)
                    IN  /\ (pt.month \in {1, 7} /\ other.month \in {4, 10})
                              => PriorityLower(label.priority, priority)
                        /\ (pt.month = 4 /\ other.month = 10)
                              => label.priority = priority
                        /\ (pt.month \in {4, 10} /\ other.month \notin Quarters)
                              => PriorityLower(label.priority, priority)

\* The points of the track plotted that are on the canvas, among the first n.
InView(n) == { m \in 0..(n - 1) : ~OffCanvas(plane_project(m).x, plane_project(m).y) }
LabelledPoints(n) == { m \in 0..(n - 1) : e.data[m + 1].text_label # NULL }

Range(seq) == { seq[m] : m \in 1..Len(seq) }

RegionOf(m, part) ==
    ExclusionRegion(plane_project(m).x, plane_project(m).y,
                    graph_coords_tick_len(e.data[m + 1]), part)

\* C12 as stated: when the track is plotted, the exclusion regions added are
\* as many as the points on the canvas plus the labelled points on the canvas;
\* a point off the canvas adds none.
C12_RegionsOnlyInView ==
    pc = "plotted" =>
        Len(page.exclusion_regions)
            = Cardinality(InView(e.point_count))
                + Cardinality(InView(e.point_count) \cap LabelledPoints(e.point_count))

\* C12, amended: every point of the track, on the canvas or off it, adds its
\* small exclusion region (-+10% of the tick length); a labelled point on the
\* canvas adds the region of its tick mark (-+40%) as well, and a labelled
\* point off the canvas does not.  After n points the regions added are n plus
\* the number of labelled points on the canvas among them.
C12_RegionsForEveryPoint ==
    pc \in {"ticks", "plotted"} =>
        /\ Len(page.exclusion_regions)
              = i + Cardinality(InView(i) \cap LabelledPoints(i))
        /\ \A m \in 0..(i - 1) : RegionOf(m, Rat(1, 10)) \in Range(page.exclusion_regions)
        /\ \A m \in InView(i) \cap LabelledPoints(i) :
              RegionOf(m, Rat(4, 10)) \in Range(page.exclusion_regions)
        /\ Len(page.labels) = Cardinality(InView(i) \cap LabelledPoints(i))

\* A track with a labelled point off the canvas and a labelled point on it
\* has been plotted: three small regions and one region of a tick mark.
C12_Witness ==
    /\ pc = "plotted"
    /\ e.point_count = 3
    /\ LabelledPoints(3) = {0, 1, 2}
    /\ InView(3) = {1}
    /\ Len(page.exclusion_regions) = 4

\* The direction from the projected point m - 1 to the projected point m.
DirectionAt(m) ==
    atan2(plane_project(m).y - plane_project(m - 1).y,
          plane_project(m).x - plane_project(m - 1).x)

\* C13: on a track of at least 3 points, the tick mark of point n >= 2 has the
\* direction from the projected point n - 1 to the projected point n, and the
\* tick marks of points 0 and 1 have the direction from the projected point 1
\* to the projected point 2, whether or not those points are on the canvas.
C13_TickDirection ==
    e.point_count >= 3 =>
        \A n \in 1..Len(page.labels) :
            LET label == page.labels[n]
            IN  label.theta = DirectionAt(IF label.point >= 2 THEN label.point ELSE 2)

====
